---- MODULE Spec2Model ----
(***************************************************************************)
(* Model of pylops_distributed/LinearOperator.py: the lazily evaluated     *)
(* operator algebra (Custom, Sum, Product, Scaled, Power, Conj), its       *)
(* construction-time checks, the matvec/rmatvec envelope (todask, reshape, *)
(* compute) and the symbolic adjoint.                                      *)
(*                                                                         *)
(* Operators live in a heap `pool` (a sequence; the index is the object's  *)
(* identity, so a child shared by several composites is one entry).        *)
(* Arrays are the vectors v * (1,...,1) of length n over the Gaussian      *)
(* integers, each either a lazy (dask) array or a concrete (numpy) array;  *)
(* a Custom leaf of shape (m, n) is the matrix c * ones(m, n), so that the *)
(* forward handle maps v*1_n to (c*n*v)*1_m and the adjoint handle maps    *)
(* v*1_m to (conj(c)*m*v)*1_n: real linear algebra on a small family.      *)
(*                                                                         *)
(* `+`, `**` and operator `*` are taken to build this module's             *)
(* _SumLinearOperator, _PowerLinearOperator and _ProductLinearOperator.    *)
(***************************************************************************)
EXTENDS Integers, Sequences, FiniteSets

VARIABLES pool, adj, call, ret, backend

vars == <<pool, adj, call, ret, backend>>

(* ------------------------------ bounds -------------------------------- *)
\* largest heap explored by Spec (all operations)
MaxOps == 3
\* largest heap explored by SpecCons (constructions only)
MaxCons == 4
\* largest heap explored by SpecAdj (one leaf, powers and adjoints)
MaxAdj == 6
\* largest heap explored by SpecFrame (a leaf, a Power over it, everything)
MaxFrame == 4

(* --------------------------- complex scalars --------------------------- *)
cadd(a, b) == <<a[1] + b[1], a[2] + b[2]>>
cmul(a, b) == <<a[1] * b[1] - a[2] * b[2], a[1] * b[2] + a[2] * b[1]>>
cconj(a) == <<a[1], 0 - a[2]>>
cint(k) == <<k, 0>>

(* ------------------------------- arrays -------------------------------- *)
NoErr == "none"
\* an array of ndim axes: cols equal columns v * (1,...,1) of length n (a
\* 1-d array is one column)
Array(n, v, lazy) ==
    [n |-> n, v |-> v, lazy |-> lazy, ndim |-> 1, cols |-> 1, err |-> NoErr]
Raise(e) ==
    [n |-> 0, v |-> <<0, 0>>, lazy |-> FALSE, ndim |-> 0, cols |-> 0, err |-> e]
IsErr(x) == x.err # NoErr

\* da.from_array(x): a raw (numpy) array becomes a dask array.  Given an
\* array that is already a dask array the backend either raises ValueError
\* (backend = "strict") or hands the dask array back (backend = "lenient"),
\* depending on its version: both backends are explored.
from_array(x) ==
    IF IsErr(x) THEN x
    ELSE IF x.lazy THEN (IF backend = "strict" THEN Raise("ValueError") ELSE x)
    ELSE [x EXCEPT !.lazy = TRUE]

\* y.compute(): defined on dask arrays only; a numpy array has no such
\* attribute.
compute(y) ==
    IF IsErr(y) THEN y
    ELSE IF y.lazy THEN [y EXCEPT !.lazy = FALSE]
    ELSE Raise("AttributeError")

\* y.reshape(k): the 1-d array of the k elements of y
reshape(y, k) ==
    IF IsErr(y) THEN y
    ELSE IF y.n * y.cols = k THEN [y EXCEPT !.n = k, !.ndim = 1, !.cols = 1]
    ELSE Raise("ValueError")

\* a + b, the left operand evaluated first; numpy + dask is dask; length 1
\* broadcasts.
add(a, b) ==
    IF IsErr(a) THEN a
    ELSE IF IsErr(b) THEN b
    ELSE IF a.n # b.n /\ a.n # 1 /\ b.n # 1 THEN Raise("ValueError")
    ELSE IF a.cols # b.cols /\ a.cols # 1 /\ b.cols # 1 THEN Raise("ValueError")
    ELSE [n |-> IF a.n >= b.n THEN a.n ELSE b.n,
          v |-> cadd(a.v, b.v),
          lazy |-> a.lazy \/ b.lazy,
          ndim |-> IF a.ndim >= b.ndim THEN a.ndim ELSE b.ndim,
          cols |-> IF a.cols >= b.cols THEN a.cols ELSE b.cols,
          err |-> NoErr]

\* alpha * y
scale(alpha, y) == IF IsErr(y) THEN y ELSE [y EXCEPT !.v = cmul(alpha, y.v)]

\* da.conj(y): elementwise, keeps numpy as numpy and dask as dask
conj(y) == IF IsErr(y) THEN y ELSE [y EXCEPT !.v = cconj(y.v)]

\* x.copy()
copy(x) == x

(* ------------------------------ handles -------------------------------- *)
\* a user function of a Custom operator: multiplication by c * ones(out, in),
\* building a dask graph (the result is lazy whatever the input is)
Handle(c, out, in) == [c |-> c, out |-> out, in |-> in]
None == Handle(<<0, 0>>, 0, 0)

CallHandle(h, x) ==
    IF IsErr(x) THEN x
    ELSE IF x.n # h.in THEN Raise("ValueError")
    ELSE [x EXCEPT !.n = h.out, !.v = cmul(cint(h.in), cmul(h.c, x.v)),
                   !.lazy = TRUE]

(* ----------------------------- operators ------------------------------- *)
FF == <<FALSE, FALSE>>

\* LinearOperator.__init__: shape, dtype, compute, todask
LinearOperator(kind, shape, dtype, cflags, todask) ==
    [kind |-> kind, shape |-> shape, dtype |-> dtype,
     compute |-> cflags, todask |-> todask,
     args |-> <<0, 0>>, alpha |-> <<0, 0>>, p |-> 0,
     matvec_impl |-> None, rmatvec_impl |-> None, matmat_impl |-> None]

\* the outcome of a call: the heap after it, the exception it raised ("none"
\* if it returned), the operator it returned (0 if none) and the array it
\* returned
Return(P, op) == [pool |-> P, exc |-> NoErr, op |-> op, val |-> Raise(NoErr)]
Throw(P, e) == [pool |-> P, exc |-> e, op |-> 0, val |-> Raise(NoErr)]
\* the outcome of an application: the array it returned, or its exception
Result(P, y) == [pool |-> P, exc |-> y.err, op |-> 0, val |-> y]
New(P, o) == Return(Append(P, o), Len(P) + 1)

_CustomLinearOperator(P, shape, mv, rmv, mm, dtype, cflags, todask) ==
    New(P, [LinearOperator("Custom", shape, dtype, cflags, todask)
               EXCEPT !.matvec_impl = mv, !.rmatvec_impl = rmv,
                      !.matmat_impl = mm])

\* variant: the compute flags of the operands are not compared
_SumLinearOperator_unchecked(P, A, B) ==
    IF P[A].shape # P[B].shape THEN Throw(P, "ValueError")
    ELSE New(P, [LinearOperator("Sum", P[A].shape, P[A].dtype,
                                P[A].compute, P[A].todask)
                    EXCEPT !.args = <<A, B>>])

_SumLinearOperator(P, A, B) ==
    IF P[A].shape # P[B].shape THEN Throw(P, "ValueError")
    ELSE IF P[A].compute[1] # P[B].compute[1]
            \/ P[A].compute[2] # P[B].compute[2] THEN Throw(P, "ValueError")
    ELSE New(P, [LinearOperator("Sum", P[A].shape, P[A].dtype,
                                P[A].compute, P[A].todask)
                    EXCEPT !.args = <<A, B>>])

_ProductLinearOperator(P, A, B) ==
    IF P[A].shape[2] # P[B].shape[1] THEN Throw(P, "ValueError")
    ELSE New(P, [LinearOperator("Product", <<P[A].shape[1], P[B].shape[2]>>,
                                P[A].dtype,
                                <<P[B].compute[1], P[A].compute[2]>>,
                                <<P[B].todask[1], P[A].todask[2]>>)
                    EXCEPT !.args = <<A, B>>])

_ScaledLinearOperator(P, A, alpha) ==
    New(P, [LinearOperator("Scaled", P[A].shape, P[A].dtype,
                           P[A].compute, P[A].todask)
               EXCEPT !.args = <<A, 0>>, !.alpha = alpha])

\* an exponent as the caller passes it: an integer, or a non-integer number
\* (val is then its integer part)
Int_(k) == [isint |-> TRUE, val |-> k]
Frac_(k) == [isint |-> FALSE, val |-> k]

\* variant: the child's flags are cleared before they are copied
_PowerLinearOperator_clearsFirst(P, A, p) ==
    IF P[A].shape[1] # P[A].shape[2] THEN Throw(P, "ValueError")
    ELSE IF ~p.isint \/ p.val < 0 THEN Throw(P, "ValueError")
    ELSE New([P EXCEPT ![A].compute = FF],
             [LinearOperator("Power", P[A].shape, P[A].dtype,
                             FF, P[A].todask)
                 EXCEPT !.args = <<A, 0>>, !.p = p.val])

\* variant: the child's flags are cleared before the exponent is checked
_PowerLinearOperator_clearsEarly(P, A, p) ==
    IF P[A].shape[1] # P[A].shape[2] THEN Throw(P, "ValueError")
    ELSE IF ~p.isint \/ p.val < 0
         THEN Throw([P EXCEPT ![A].compute = FF], "ValueError")
    ELSE New([P EXCEPT ![A].compute = FF],
             [LinearOperator("Power", P[A].shape, P[A].dtype,
                             P[A].compute, P[A].todask)
                 EXCEPT !.args = <<A, 0>>, !.p = p.val])

_PowerLinearOperator(P, A, p) ==
    IF P[A].shape[1] # P[A].shape[2] THEN Throw(P, "ValueError")
    ELSE IF ~p.isint \/ p.val < 0 THEN Throw(P, "ValueError")
    ELSE New([P EXCEPT ![A].compute = FF],
             [LinearOperator("Power", P[A].shape, P[A].dtype,
                             P[A].compute, P[A].todask)
                 EXCEPT !.args = <<A, 0>>, !.p = p.val])

\* variant: the wrapped operator's flags are cleared as Power clears them
_ConjLinearOperator_clears(P, Op) ==
    New([P EXCEPT ![Op].compute = FF],
        [LinearOperator("Conj", P[Op].shape, P[Op].dtype,
                        P[Op].compute, P[Op].todask)
            EXCEPT !.args = <<Op, 0>>])

_ConjLinearOperator(P, Op) ==
    New(P, [LinearOperator("Conj", P[Op].shape, P[Op].dtype,
                           P[Op].compute, P[Op].todask)
               EXCEPT !.args = <<Op, 0>>])

(* ---------------------------- application ------------------------------ *)
RECURSIVE matvec(_, _, _), rmatvec(_, _, _)
RECURSIVE _matvec(_, _, _), _rmatvec(_, _, _)
RECURSIVE matmat(_, _, _), _matmat(_, _, _)
RECURSIVE _power(_, _, _, _, _)

\* LinearOperator.matvec: todask, _matvec, reshape, compute (self.Op is None
\* for every operator built here)
matvec(P, i, x) ==
    LET x1 == IF P[i].todask[1] THEN from_array(x) ELSE x
        y == reshape(_matvec(P, i, x1), P[i].shape[1])
    IN IF P[i].compute[1] THEN compute(y) ELSE y

\* LinearOperator.rmatvec
rmatvec(P, i, x) ==
    LET x1 == IF P[i].todask[2] THEN from_array(x) ELSE x
        y == reshape(_rmatvec(P, i, x1), P[i].shape[2])
    IN IF P[i].compute[2] THEN compute(y) ELSE y

\* the matmat of the base library, which this class does not override: a
\* 2-d array with shape[1] rows is handed to _matmat
matmat(P, i, X) ==
    IF IsErr(X) THEN X
    ELSE IF X.ndim # 2 \/ X.n # P[i].shape[2] THEN Raise("ValueError")
    ELSE _matmat(P, i, X)

\* the _matmat of the base library: the forward map on each column
_matmat_default(P, i, X) ==
    LET y == matvec(P, i, [X EXCEPT !.ndim = 1, !.cols = 1]) IN
    IF IsErr(y) THEN y ELSE [y EXCEPT !.ndim = 2, !.cols = X.cols]

\* _PowerLinearOperator._power: fun, the child's matvec, rmatvec or matmat,
\* applied k more times to res
_power(P, A, fun, res, k) ==
    IF k = 0 THEN res
    ELSE _power(P, A, fun,
                CASE fun = "matvec" -> matvec(P, A, res)
                  [] fun = "rmatvec" -> rmatvec(P, A, res)
                  [] fun = "matmat" -> matmat(P, A, res),
                k - 1)

\* the end of _power: the computation of the final result
_power_end(res, cflag) == IF cflag THEN compute(res) ELSE res

\* the _matvec of each class
_matvec(P, i, x) ==
    LET o == P[i] A == o.args[1] B == o.args[2] IN
    CASE o.kind = "Custom" -> CallHandle(o.matvec_impl, x)
      [] o.kind = "Sum" -> add(matvec(P, A, x), matvec(P, B, x))
      [] o.kind = "Product" -> matvec(P, A, matvec(P, B, x))
      [] o.kind = "Scaled" -> scale(o.alpha, matvec(P, A, x))
      [] o.kind = "Power" ->
            _power_end(_power(P, A, "matvec", copy(x), o.p), o.compute[1])
      [] o.kind = "Conj" -> conj(_matvec(P, A, conj(x)))

\* the _rmatvec of each class
_rmatvec(P, i, x) ==
    LET o == P[i] A == o.args[1] B == o.args[2] IN
    CASE o.kind = "Custom" ->
            IF o.rmatvec_impl = None THEN
                (IF IsErr(x) THEN x ELSE Raise("NotImplementedError"))
            ELSE CallHandle(o.rmatvec_impl, x)
      [] o.kind = "Sum" -> add(rmatvec(P, A, x), rmatvec(P, B, x))
      [] o.kind = "Product" -> rmatvec(P, B, rmatvec(P, A, x))
      [] o.kind = "Scaled" -> scale(cconj(o.alpha), rmatvec(P, A, x))
      [] o.kind = "Power" ->
            _power_end(_power(P, A, "rmatvec", copy(x), o.p), o.compute[2])
      [] o.kind = "Conj" -> conj(_rmatvec(P, A, conj(x)))

\* the _matmat of each class (_ConjLinearOperator defines none)
_matmat(P, i, X) ==
    LET o == P[i] A == o.args[1] B == o.args[2] IN
    CASE o.kind = "Custom" ->
            IF o.matmat_impl # None THEN CallHandle(o.matmat_impl, X)
            ELSE _matmat_default(P, i, X)
      [] o.kind = "Sum" -> add(matmat(P, A, X), matmat(P, B, X))
      [] o.kind = "Product" -> matmat(P, A, matmat(P, B, X))
      [] o.kind = "Scaled" -> scale(o.alpha, matmat(P, A, X))
      [] o.kind = "Power" ->
            _power_end(_power(P, A, "matmat", copy(X), o.p), o.compute[1])
      [] o.kind = "Conj" -> _matmat_default(P, i, X)

\* LinearOperator.dot with an operand that is an operator, a scalar or an
\* array
Operand(j) == [tag |-> "operator", op |-> j, alpha |-> <<0, 0>>, x |-> Raise(NoErr)]
Scalar(a) == [tag |-> "scalar", op |-> 0, alpha |-> a, x |-> Raise(NoErr)]
Vector(x) == [tag |-> "array", op |-> 0, alpha |-> <<0, 0>>, x |-> x]

dot(P, i, x) ==
    IF x.tag = "operator" THEN _ProductLinearOperator(P, i, x.op)
    ELSE IF x.tag = "scalar" THEN _ScaledLinearOperator(P, i, x.alpha)
    ELSE IF x.x.ndim = 1 \/ (x.x.ndim = 2 /\ x.x.cols = 1)
         THEN Result(P, matvec(P, i, x.x))
    ELSE IF x.x.ndim = 2 THEN Result(P, matmat(P, i, x.x))
    ELSE Throw(P, "ValueError")

(* ------------------------------ adjoint -------------------------------- *)
\* adj is the caller's record of the adjoints taken: adj[i] is the operator
\* the latest i.adjoint() returned (0 if none was taken)
Bind(J, n, i, j) ==
    [k \in 1..n |-> IF k = i THEN j ELSE IF k <= Len(J) THEN J[k] ELSE 0]
Adjoined(out, J) == [out |-> out, adj |-> J]

RECURSIVE adjoint(_, _, _)

\* the _adjoint of each class; operands are evaluated left to right and an
\* exception of an operand ends the call
_adjoint(P, J, i) ==
    LET o == P[i] A == o.args[1] B == o.args[2] IN
    CASE o.kind = "Custom" ->
            Adjoined(_CustomLinearOperator(P, <<o.shape[2], o.shape[1]>>,
                                           o.rmatvec_impl, o.matvec_impl,
                                           None, o.dtype, o.compute,
                                           <<o.todask[2], o.todask[1]>>), J)
      [] o.kind = "Sum" ->
            LET a == adjoint(P, J, A) IN
            IF a.out.exc # NoErr THEN a ELSE
            LET b == adjoint(a.out.pool, a.adj, B) IN
            IF b.out.exc # NoErr THEN b ELSE
            Adjoined(_SumLinearOperator(b.out.pool, a.out.op, b.out.op), b.adj)
      [] o.kind = "Product" ->
            LET b == adjoint(P, J, B) IN
            IF b.out.exc # NoErr THEN b ELSE
            LET a == adjoint(b.out.pool, b.adj, A) IN
            IF a.out.exc # NoErr THEN a ELSE
            Adjoined(dot(a.out.pool, b.out.op, Operand(a.out.op)), a.adj)
      [] o.kind = "Scaled" ->
            LET a == adjoint(P, J, A) IN
            IF a.out.exc # NoErr THEN a ELSE
            Adjoined(dot(a.out.pool, a.out.op, Scalar(cconj(o.alpha))), a.adj)
      [] o.kind = "Power" ->
            LET a == adjoint(P, J, A) IN
            IF a.out.exc # NoErr THEN a ELSE
            Adjoined(_PowerLinearOperator(a.out.pool, a.out.op, Int_(o.p)), a.adj)
      [] o.kind = "Conj" ->
            LET a == adjoint(P, J, A) IN
            IF a.out.exc # NoErr THEN a ELSE
            Adjoined(_ConjLinearOperator(a.out.pool, a.out.op), a.adj)

\* LinearOperator.adjoint (the property H)
adjoint(P, J, i) ==
    LET r == _adjoint(P, J, i) IN
    IF r.out.exc # NoErr THEN r
    ELSE Adjoined(r.out, Bind(r.adj, Len(r.out.pool), i, r.out.op))

\* LinearOperator.conj
conj_(P, i) == _ConjLinearOperator(P, i)

(* ------------------------------- inputs -------------------------------- *)
BoolPairs == {<<a, b>> : a \in BOOLEAN, b \in BOOLEAN}
SquareShapes == {<<1, 1>>}
LeafShapes == {<<1, 1>>, <<1, 2>>}
ToDask == {FF, <<TRUE, FALSE>>}
Alphas == {<<0, 1>>}
Exponents == {Int_(0 - 1), Int_(0), Int_(1), Int_(3), Frac_(1)}
Backends == {"strict", "lenient"}

\* a Custom operator for the matrix c * ones(shape), with both handles and,
\* if batched, a matmat handle
Leaf(c, shape, cflags, todask, batched) ==
    [LinearOperator("Custom", shape, "complex128", cflags, todask)
        EXCEPT !.matvec_impl = Handle(c, shape[1], shape[2]),
               !.rmatvec_impl = Handle(cconj(c), shape[2], shape[1]),
               !.matmat_impl = IF batched THEN Handle(c, shape[1], shape[2])
                               ELSE None]

\* the vectors given to an operator: the right length, numpy or dask
Vectors(n) == {Array(n, <<1, 1>>, lazy) : lazy \in BOOLEAN}
\* a 2-d numpy array of two columns
Matrix(n) == [Array(n, <<1, 1>>, FALSE) EXCEPT !.ndim = 2, !.cols = 2]
\* an array with three axes
Cube == [Array(1, <<1, 1>>, FALSE) EXCEPT !.ndim = 3]

NoArg == [a |-> 0, b |-> 0, s |-> <<0, 0>>, p |-> Int_(0), x |-> Raise(NoErr)]
Call(op, a) == [op |-> op, a |-> a, b |-> NoArg.b, s |-> NoArg.s,
                p |-> NoArg.p, x |-> NoArg.x]

(* ------------------------------- actions ------------------------------- *)
\* between two statements of the caller nothing is pending
Idle == Call("idle", 0)
NoRet == [exc |-> NoErr, op |-> 0, val |-> Raise(NoErr)]

\* one statement of the caller runs a call to its end: the heap, the
\* adjoints taken, the call and its outcome
Step(N, c, out, J) ==
    /\ call = Idle
    /\ Len(out.pool) <= N
    /\ pool' = out.pool
    /\ adj' = Bind(J, Len(out.pool), 0, 0)
    /\ call' = c
    /\ ret' = [exc |-> out.exc, op |-> out.op, val |-> out.val]
    /\ UNCHANGED backend

Ops == 1..Len(pool)

\* constructors are called while the heap has room for the operator
Room(N) == Len(pool) < N

\* A + B
Add(N) ==
    /\ Room(N)
    /\ \E A \in Ops, B \in Ops :
        Step(N, [Call("add", A) EXCEPT !.b = B], _SumLinearOperator(pool, A, B), adj)

\* A * B, B an operator
Product(N) ==
    /\ Room(N)
    /\ \E A \in Ops, B \in Ops :
        Step(N, [Call("product", A) EXCEPT !.b = B], dot(pool, A, Operand(B)), adj)

\* A * alpha, alpha a scalar
Scale(N) ==
    /\ Room(N)
    /\ \E A \in Ops, alpha \in Alphas :
        Step(N, [Call("scale", A) EXCEPT !.s = alpha], dot(pool, A, Scalar(alpha)), adj)

\* A ** p
Pow(N, E) ==
    /\ Room(N)
    /\ \E A \in Ops, p \in E :
        Step(N, [Call("pow", A) EXCEPT !.p = p], _PowerLinearOperator(pool, A, p), adj)

\* A.conj()
Conj(N) ==
    /\ Room(N)
    /\ \E A \in Ops : Step(N, Call("conj", A), conj_(pool, A), adj)

\* A.H
Adjoint(N) ==
    /\ Room(N)
    /\ \E A \in Ops :
        LET r == adjoint(pool, adj, A) IN Step(N, Call("adjoint", A), r.out, r.adj)

\* A * x, x an array
Apply(N) ==
    /\ Len(pool) <= N
    /\ \E A \in Ops :
        \E x \in Vectors(pool[A].shape[2]) \cup {Matrix(pool[A].shape[2]), Cube} :
            Step(N, [Call("apply", A) EXCEPT !.x = x], dot(pool, A, Vector(x)), adj)

\* A.rmatvec(x)
ApplyAdjoint(N) ==
    /\ Len(pool) <= N
    /\ \E A \in Ops :
        \E x \in Vectors(pool[A].shape[1]) :
            Step(N, [Call("applyAdjoint", A) EXCEPT !.x = x],
                 Result(pool, rmatvec(pool, A, x)), adj)

\* the caller drops the outcome and goes on to its next statement
Discard ==
    /\ call # Idle
    /\ call' = Idle
    /\ ret' = NoRet
    /\ UNCHANGED <<pool, adj, backend>>

(* ---------------------------- specifications --------------------------- *)
TwoLeaves(shapes1, shapes2, todasks1, todasks2) ==
    \E s1 \in shapes1, s2 \in shapes2, c1 \in BoolPairs, c2 \in BoolPairs,
       t1 \in todasks1, t2 \in todasks2 :
        pool = <<Leaf(<<1, 1>>, s1, c1, t1, TRUE), Leaf(<<2, 0>>, s2, c2, t2, FALSE)>>

Start ==
    /\ adj = Bind(<<>>, Len(pool), 0, 0)
    /\ call = Idle
    /\ ret = NoRet

\* two Custom operators, every operation
Init ==
    /\ TwoLeaves(SquareShapes, LeafShapes, ToDask, {FF})
    /\ backend \in Backends
    /\ Start

Next ==
    \/ Add(MaxOps)
    \/ Product(MaxOps)
    \/ Scale(MaxOps)
    \/ Pow(MaxOps, Exponents)
    \/ Conj(MaxOps)
    \/ Adjoint(MaxOps)
    \/ Apply(MaxOps)
    \/ ApplyAdjoint(MaxOps)
    \/ Discard

Spec == Init /\ [][Next]_vars

\* two Custom operators, the constructions that succeed
InitCons ==
    /\ TwoLeaves(SquareShapes, LeafShapes, {<<TRUE, FALSE>>}, {FF})
    /\ backend \in Backends
    /\ Start

NextCons ==
    \/ Add(MaxCons) /\ ret'.exc = NoErr
    \/ Product(MaxCons) /\ ret'.exc = NoErr
    \/ Scale(MaxCons) /\ ret'.exc = NoErr
    \/ Pow(MaxCons, Exponents) /\ ret'.exc = NoErr
    \/ Conj(MaxCons) /\ ret'.exc = NoErr
    \/ Adjoint(MaxCons) /\ ret'.exc = NoErr
    \/ Discard

SpecCons == InitCons /\ [][NextCons]_vars

\* one square Custom operator, its powers and their adjoints
InitAdj ==
    /\ \E c \in BoolPairs, t \in ToDask, s \in SquareShapes :
           pool = <<Leaf(<<1, 1>>, s, c, t, TRUE)>>
    /\ backend \in Backends
    /\ Start

NextAdj ==
    \/ Pow(MaxAdj, {Int_(1)})
    \/ Adjoint(MaxAdj)
    \/ Apply(MaxAdj)
    \/ ApplyAdjoint(MaxAdj)
    \/ Discard

SpecAdj == InitAdj /\ [][NextAdj]_vars

\* a Custom operator and a Power over it, every operation (applications on
\* the heaps that are not the largest)
InitFrame ==
    /\ \E c \in BoolPairs, s \in SquareShapes, t \in ToDask :
           pool = _PowerLinearOperator(<<Leaf(<<1, 1>>, s, c, t, TRUE)>>,
                                       1, Int_(1)).pool
    /\ backend \in Backends
    /\ Start

NextFrame ==
    \/ Add(MaxFrame)
    \/ Product(MaxFrame)
    \/ Scale(MaxFrame)
    \/ Pow(MaxFrame, Exponents)
    \/ Conj(MaxFrame)
    \/ Adjoint(MaxFrame)
    \/ Apply(MaxFrame - 1)
    \/ ApplyAdjoint(MaxFrame - 1)
    \/ Discard

SpecFrame == InitFrame /\ [][NextFrame]_vars

(* ------------------------------- claims -------------------------------- *)
TT == <<TRUE, TRUE>>
Constructed(op) == call.op = op /\ ret.exc = NoErr
\* a Power operator over o exists
PowerOver(o) == \E q \in Ops : pool[q].kind = "Power" /\ pool[q].args[1] = o

\* C1: when Power(A, p) is constructed over a square A with a non-negative
\* integer p, A's compute flags are (False, False) afterwards and the Power
\* operator has the flags A had just before.
C1_PowerTakesFlags ==
    [][(call'.op = "pow" /\ ret'.exc = NoErr) =>
          /\ pool'[call'.a].compute = FF
          /\ pool'[ret'.op].compute = pool[call'.a].compute
          /\ pool'[ret'.op].kind = "Power"
          /\ pool'[ret'.op].args[1] = call'.a]_vars

\* a Power with exponent 3 was built over an operator whose flags were
\* (True, True)
C1_Witness ==
    /\ Constructed("pow")
    /\ call.p = Int_(3)
    /\ pool[ret.op].compute = TT
    /\ pool[call.a].compute = FF

\* C2: a Sum of operators of different shapes, a Product whose inner
\* dimensions differ, a Power with a negative or non-integer exponent and a
\* Power over a non-square operator raise ValueError from the constructor,
\* and the heap is as it was: no operator is added and none is changed.
C2_ConstructionErrors ==
    [][(\/ call'.op = "add" /\ pool[call'.a].shape # pool[call'.b].shape
        \/ call'.op = "product"
              /\ pool[call'.a].shape[2] # pool[call'.b].shape[1]
        \/ call'.op = "pow" /\ (~call'.p.isint \/ call'.p.val < 0)
        \/ call'.op = "pow"
              /\ pool[call'.a].shape[1] # pool[call'.a].shape[2])
       => (ret'.exc = "ValueError" /\ ret'.op = 0 /\ pool' = pool)]_vars

\* a Power with a negative exponent over a square operator with flags
\* (True, True) was rejected, and the operator still has its flags
C2_Witness ==
    /\ call.op = "pow"
    /\ call.p = Int_(0 - 1)
    /\ ret.exc = "ValueError"
    /\ pool[call.a].shape[1] = pool[call.a].shape[2]
    /\ pool[call.a].compute = TT

\* C7: the only write to an operator that exists already is the clearing of
\* the child's compute flags by the construction of a Power: Sum, Product,
\* Scaled and Conj construction, adjoint() and conj() on any operator (a
\* Power included), and matvec, rmatvec and matmat leave the shape, dtype,
\* compute, todask and children of every existing operator as they were.
C7_Frame ==
    [][/\ Len(pool') >= Len(pool)
       /\ \A i \in 1..Len(pool) :
             \/ pool'[i] = pool[i]
             \/ /\ call'.op = "pow"
                /\ i = call'.a
                /\ pool'[i] = [pool[i] EXCEPT !.compute = FF]]_vars

\* the adjoint of a Power was taken (a Power over the fresh adjoint of its
\* child was built) and the Power's other operators exist unchanged
C7_Witness ==
    /\ Constructed("adjoint")
    /\ pool[call.a].kind = "Power"
    /\ pool[ret.op].kind = "Power"
    /\ pool[ret.op].args[1] > call.a

\* C8 as stated: every Sum's two children have the same compute flags, and
\* they are the Sum's own flags.
C8_SumChildrenAgree ==
    \A s \in Ops :
        pool[s].kind = "Sum" =>
            /\ pool[pool[s].args[1]].compute = pool[pool[s].args[2]].compute
            /\ pool[pool[s].args[1]].compute = pool[s].compute

\* C8 amended: the compute flags of every Sum and of its two children are
\* one and the same pair, except for those of the three over which a Power
\* was constructed since: these have (False, False).
C8_SumChildrenAgreeUnlessPowered ==
    \A s \in Ops :
        pool[s].kind = "Sum" =>
            \E c \in BoolPairs :
                \A o \in {s, pool[s].args[1], pool[s].args[2]} :
                    \/ pool[o].compute = c
                    \/ pool[o].compute = FF /\ PowerOver(o)

\* a Sum of two operators with flags (True, True) exists and a Power built
\* later over its first child has cleared that child's flags
C8_Witness ==
    \E s \in Ops :
        /\ pool[s].kind = "Sum"
        /\ pool[s].compute = TT
        /\ pool[pool[s].args[1]].compute = FF
        /\ pool[pool[s].args[2]].compute = TT
        /\ pool[s].args[1] # pool[s].args[2]
        /\ \E q \in Ops : q > s /\ pool[q].kind = "Power"
                              /\ pool[q].args[1] = pool[s].args[1]

\* an array with its computation forced: a lazy array computed, a concrete
\* array as it is, an exception as it is
Forced(y) == IF IsErr(y) THEN y ELSE [y EXCEPT !.lazy = FALSE]
Applied(kind) == call.op = "apply" /\ call.x.ndim = 1 /\ pool[call.a].kind = kind
First(s) == pool[s].args[1]
Second(s) == pool[s].args[2]

\* the operators an operator is made of, itself included
RECURSIVE Tree(_)
Tree(i) ==
    {i} \cup (IF First(i) = 0 THEN {} ELSE Tree(First(i)))
        \cup (IF Second(i) = 0 THEN {} ELSE Tree(Second(i)))
\* no Power built apart from i has cleared the flags of a part of i
Untouched(i) ==
    \A q \in Ops :
        (pool[q].kind = "Power" /\ First(q) \in Tree(i)) => q \in Tree(i)

\* C3: for A and B of one shape with the same compute flags, whatever the
\* flags are, (A + B).matvec(x) is A.matvec(x) + B.matvec(x) and
\* (A + B).H.matvec(y) is A.H.matvec(y) + B.H.matvec(y), the values compared
\* after forcing the computation.
C3_SumApplies ==
    /\ (Applied("Sum")
          /\ pool[First(call.a)].compute = pool[Second(call.a)].compute)
        => Forced(ret.val) = Forced(add(matvec(pool, First(call.a), call.x),
                                        matvec(pool, Second(call.a), call.x)))
    /\ \A s \in Ops :
          (/\ call.op = "apply" /\ call.x.ndim = 1
           /\ pool[s].kind = "Sum" /\ adj[s] = call.a
           /\ pool[First(s)].compute = pool[Second(s)].compute
           /\ adj[First(s)] # 0 /\ adj[Second(s)] # 0
           /\ Untouched(s) /\ Untouched(call.a))
          => Forced(ret.val)
               = Forced(add(matvec(pool, adj[First(s)], call.x),
                            matvec(pool, adj[Second(s)], call.x)))

\* C4: for every A and B with A.shape[1] = B.shape[0], whatever their flags,
\* (A * B).matvec(x) is A.matvec(B.matvec(x)) and (A * B).H.matvec(y) is
\* B.H.matvec(A.H.matvec(y)) (the values compared after forcing).
C4_ProductApplies ==
    /\ Applied("Product")
        => Forced(ret.val)
             = Forced(matvec(pool, First(call.a),
                             matvec(pool, Second(call.a), call.x)))
    /\ \A s \in Ops :
          (/\ call.op = "apply" /\ call.x.ndim = 1
           /\ pool[s].kind = "Product" /\ adj[s] = call.a
           /\ adj[First(s)] # 0 /\ adj[Second(s)] # 0
           /\ Untouched(s) /\ Untouched(call.a))
          => Forced(ret.val)
               = Forced(matvec(pool, adj[Second(s)],
                               matvec(pool, adj[First(s)], call.x)))

\* A's forward map applied k times in sequence to x
RECURSIVE InSequence(_, _, _)
InSequence(A, x, k) ==
    IF k = 0 THEN x ELSE matvec(pool, A, InSequence(A, x, k - 1))

\* C5: whatever flags A had when the Power was built, (A ** p).matvec(x) for
\* p in {0, 1, 3} is A's forward map applied p times in sequence to x (x
\* itself for p = 0), computed at the end if the Power's own forward flag
\* asks for it.
C5_PowerApplies ==
    (Applied("Power") /\ pool[call.a].p \in {0, 1, 3})
    => LET e == InSequence(First(call.a), call.x, pool[call.a].p) IN
       /\ Forced(ret.val) = Forced(e)
       /\ (pool[call.a].compute[1] /\ ~IsErr(e)) => ~ret.val.lazy

\* C6: A.H.H acts as A does, for A a Custom operator and for A a composite:
\* its matvec returns what A.matvec returns and its rmatvec what A.rmatvec
\* returns (the same shape, the same values, lazy or computed alike).
C6_AdjointTwice ==
    \A i \in Ops :
        (/\ adj[i] # 0 /\ adj[adj[i]] # 0 /\ call.a = adj[adj[i]]
         /\ Untouched(i) /\ Untouched(adj[i]) /\ Untouched(call.a))
        => /\ pool[call.a].shape = pool[i].shape
           /\ (call.op = "apply" /\ call.x.ndim = 1)
                 => ret.val = matvec(pool, i, call.x)
           /\ call.op = "applyAdjoint" => ret.val = rmatvec(pool, i, call.x)

\* C9: matvec and rmatvec of an operator built from Custom leaves never call
\* compute() on an array that is computed already.
C9_NoSecondCompute ==
    (call.op \in {"apply", "applyAdjoint"} /\ call.x.ndim = 1)
    => ret.exc # "AttributeError"

\* C10: for a Custom operator A with both handles, whatever its flags,
\* A.H.matvec(y) returns what A.rmatvec(y) returns and A.H.rmatvec(x) what
\* A.matvec(x) returns: converted and computed under the same conditions.
C10_CustomAdjoint ==
    \A i \in Ops :
        (/\ pool[i].kind = "Custom" /\ adj[i] # 0 /\ call.a = adj[i]
         /\ pool[i].matvec_impl # None /\ pool[i].rmatvec_impl # None
         /\ Untouched(i) /\ Untouched(call.a))
        => /\ (call.op = "apply" /\ call.x.ndim = 1)
                 => ret.val = rmatvec(pool, i, call.x)
           /\ call.op = "applyAdjoint" => ret.val = matvec(pool, i, call.x)

====
